---------------------------- MODULE Spec2Model ----------------------------
(***************************************************************************)
(* Model of limlistener: a net.Listener wrapper (LimitedListener) whose    *)
(* connections (LimitedConn) throttle Write through two token buckets, a   *)
(* private per-connection limiter and a global limiter shared by all       *)
(* connections.                                                            *)
(*                                                                         *)
(* Pointers are modelled as indices: a *rlimit.Limiter is an index into    *)
(* `limiters` (0 is nil), a *LimitedConn kept by the registry is an index  *)
(* into `lconns`, and the LimitedConn VALUE that Accept returns to the     *)
(* caller is the entry of `handles` with the same index.  A net.Conn is    *)
(* an index into `rawConn` (0 is the nil conn of a failed accept).         *)
(***************************************************************************)
EXTENDS Integers, Sequences, FiniteSets, TLC

\* ------------------------------------------------------------------ bounds
MtuScale == 2        \* the chunk size, scaled down from 1024 bytes
MaxRate == 2         \* rates passed to SetLimits are drawn from 1..MaxRate
MaxAccepts == 3      \* Accept calls explored by Spec
MaxCloseCalls == 3   \* CloseConnection calls explored by Spec
MaxWriters == 1      \* Accept calls explored by SpecWrite
MaxData == 3         \* longest payload handed to Write
MaxTime == 2         \* clock ticks explored by SpecWrite
MaxWrites == 2       \* Write calls explored per connection by SpecWrite
MaxFails == 1        \* limiter-wait / raw-write failures injected per run
MaxSharers == 2      \* Accept calls explored by SpecShare
ShareData == 3       \* longest payload handed to Write by SpecShare
ShareTime == 1       \* clock ticks explored by SpecShare
WaitData == 3        \* longest payload handed to Write by SpecWait
WaitTime == 1        \* clock ticks explored by SpecWait
RaceAccepts == 3     \* Accept calls explored by SpecRace

\* -------------------------------------------------------- program constant
defaultMTU == MtuScale

VARIABLES
    n_conns,        \* LimitedListener.n_conns
    listener,       \* LimitedListener.listener: "open" or "closed"
    globalLimiter,  \* LimitedListener.globalLimiter: limiter index, 0 = nil
    connLimit,      \* LimitedListener.connLimit
    mtu,            \* LimitedListener.mtu
    conns,          \* LimitedListener.conns: sequence of *LimitedConn
    lconns,         \* the LimitedConn structs the registry points to
    handles,        \* the LimitedConn values returned by Accept
    limiters,       \* the rlimit.Limiter objects
    rawConn,        \* the underlying net.Conn objects: "open" or "closed"
    wr,             \* per returned connection: the state of its Write call
    orphans,        \* waitN calls that returned early and whose goroutines
                    \* have not all terminated
    now,            \* the limiters' clock
    crashed,        \* a goroutine panicked (nil dereference)
    fails,          \* number of injected failures so far
    closeCalls,     \* history: CloseConnection calls per returned connection
    lastSet,        \* history: the arguments of the latest SetLimits, the
                    \* first instant all of whose bytes were passed after
                    \* it, and whether it repeated the call before it
    inflight        \* calls of the listener's methods that have read the
                    \* registry or the counter and not yet written them back

vars == <<n_conns, listener, globalLimiter, connLimit, mtu, conns, lconns,
          handles, limiters, rawConn, wr, orphans, now, crashed, fails,
          closeCalls, lastSet, inflight>>

listenerVars == <<n_conns, listener, globalLimiter, connLimit, mtu, conns,
                  lconns, handles, rawConn>>


Rates == 1..MaxRate
\* the payloads: k distinct bytes
Payload(k) == [i \in 1..k |-> i]

\* ---------------------------------------------------------------- helpers
RECURSIVE SumSeq(_)
SumSeq(s) == IF s = <<>> THEN 0 ELSE Head(s) + SumSeq(Tail(s))

RECURSIVE Flatten(_)
Flatten(ss) == IF ss = <<>> THEN <<>> ELSE Head(ss) \o Flatten(Tail(ss))

Range(s) == {s[i] : i \in 1..Len(s)}

Min(a, b) == IF a < b THEN a ELSE b

\* history read off the state: every Accept call returns one connection value
nAccept == Len(handles)
nClose == SumSeq(closeCalls)

\* ------------------------------------------------------- rlimit.Limiter
\* A discrete-time token bucket: it starts full, gains `limit` tokens per
\* tick up to `burst`, and WaitN(n) returns nil once it has taken n tokens.
NewLimiter(r, b) == [limit |-> r, burst |-> b, tokens |-> b]

LimiterSetLimit(l, r) == [l EXCEPT !.limit = r]

LimiterRefill(l) == [l EXCEPT !.tokens = Min(l.burst, l.tokens + l.limit)]

LimiterCanTake(l, n) == l.tokens >= n

LimiterTake(l, n) == [l EXCEPT !.tokens = l.tokens - n]

\* ------------------------------------------------------------ writer state
\* w is the waitN call in progress (or the latest one): n its argument, cs and
\* gs the state of the goroutine waiting on the connection / global limiter
\* ("run", "ok" or "err"), ch the buffered channel `done`, closed whether the
\* third goroutine closed it, ret what waitN returned ("none" while running).
\* cg and gg are history: the units each limiter granted to this call.
\* In the writer, data, rawLog, failed and calls are history of the current
\* Write call (its argument, the chunks it passed to the raw connection,
\* whether a wait or raw write of it failed) and of the connection (the number
\* of Write calls); sentAt[t + 1] is the number of bytes passed to the raw
\* connection at instant t, carry[t + 1] the length of the chunk a Write call
\* had taken but not yet passed when instant t began.  cancel is history too:
\* whether the caller of the current Write call gave up on it (cancelled, or
\* its deadline passed) while the call was in waitN.
NoWait == [n |-> 0, cs |-> "none", gs |-> "none", cg |-> 0, gg |-> 0,
           ch |-> <<>>, closed |-> FALSE, ret |-> "none"]
NoRet == [n |-> 0, err |-> "none"]

IdleWriter == [pc |-> "idle", data |-> <<>>, b |-> <<>>, s |-> <<>>, n |-> 0,
               w |-> NoWait, ret |-> NoRet, rawLog |-> <<>>,
               failed |-> FALSE, calls |-> 0, cancel |-> FALSE,
               sentAt |-> [t \in 1..(now + 1) |-> 0],
               carry |-> [t \in 1..(now + 1) |-> 0]]

Init ==
    /\ n_conns = 0
    /\ listener = "open"
    /\ globalLimiter = 0
    /\ connLimit = 0
    /\ mtu = defaultMTU
    /\ conns = <<>>
    /\ lconns = <<>>
    /\ handles = <<>>
    /\ limiters = <<>>
    /\ rawConn = <<>>
    /\ wr = <<>>
    /\ orphans = <<>>
    /\ now = 0
    /\ crashed = FALSE
    /\ fails = 0
    /\ closeCalls = <<>>
    /\ lastSet = [set |-> FALSE, g |-> 0, c |-> 0, from |-> 0,
                  again |-> FALSE]
    /\ inflight = {}

\* history: the bytes the connections hs passed to their raw connections at
\* the instants i..j
RECURSIVE SentIn(_, _, _)
SentIn(hs, i, j) ==
    IF hs = {} THEN 0
    ELSE LET h == CHOOSE x \in hs : TRUE
         IN SumSeq(SubSeq(wr[h].sentAt, i + 1, j + 1)) + SentIn(hs \ {h}, i, j)

\* A variant of SetLimit that always makes a new limiter.
SetLimitReplace(st, a, limit) ==
    [lc |-> [st.lc EXCEPT ![a].connLimiter = Len(st.lim) + 1],
     lim |-> Append(st.lim, NewLimiter(limit, st.lc[a].mtu))]

\* ------------------------------------------------------ LimitedConn.SetLimit
\* st = [lc |-> the registry's structs, lim |-> the limiter objects];
\* a is the *LimitedConn the method is called on.
SetLimit(st, a, limit) ==
    LET created == st.lc[a].connLimiter = 0
        l == IF created THEN Len(st.lim) + 1 ELSE st.lc[a].connLimiter
        lim1 == IF created
                THEN Append(st.lim, NewLimiter(limit, st.lc[a].mtu))
                ELSE st.lim
        lc1 == IF created THEN [st.lc EXCEPT ![a].connLimiter = l] ELSE st.lc
    IN [lc |-> lc1, lim |-> [lim1 EXCEPT ![l] = LimiterSetLimit(lim1[l], limit)]]

\* for _, conn := range ll.conns { conn.SetLimit(connLimit) }
RECURSIVE SetLimitEach(_, _, _)
SetLimitEach(st, cs, limit) ==
    IF cs = <<>> THEN st
    ELSE SetLimitEach(SetLimit(st, Head(cs), limit), Tail(cs), limit)

\* -------------------------------------------------- LimitedListener.SetLimits
\* A variant of NoGlobalLimiter: the nil check is left out.
NoGlobalLimiterAlways == TRUE

\* if ll.globalLimiter == nil
NoGlobalLimiter == globalLimiter = 0

SetLimits(globalLimit, newConnLimit) ==
    LET created == NoGlobalLimiter
        gl == IF created THEN Len(limiters) + 1 ELSE globalLimiter
        lim1 == IF created
                THEN Append(limiters, NewLimiter(globalLimit, mtu))
                ELSE limiters
        lim2 == [lim1 EXCEPT ![gl] = LimiterSetLimit(lim1[gl], globalLimit)]
        st == SetLimitEach([lc |-> lconns, lim |-> lim2], conns, newConnLimit)
    IN /\ ~crashed
       /\ globalLimiter' = gl
       /\ connLimit' = newConnLimit
       /\ lconns' = st.lc
       /\ limiters' = st.lim
       /\ lastSet' = [set |-> TRUE, g |-> globalLimit, c |-> newConnLimit,
                     from |-> IF SentIn(1..Len(wr), now, now) = 0
                              THEN now ELSE now + 1,
                     again |-> /\ lastSet.set
                               /\ lastSet.g = globalLimit
                               /\ lastSet.c = newConnLimit]
       /\ UNCHANGED <<n_conns, listener, mtu, conns, handles, rawConn, wr,
                      orphans, now, crashed, fails, closeCalls, inflight>>

\* ---------------------------------------------------- LimitedListener.Accept
\* ok: whether the raw listener's Accept succeeded.  A closed listener
\* cannot accept.  The error is only looked at by the caller: the counter,
\* the struct and the registry entry are made either way.
Accept(ok) ==
    /\ ~crashed
    /\ ok => listener = "open"
    /\ LET conn == IF ok THEN Len(rawConn) + 1 ELSE 0
           conn_id == n_conns
           lconn == [id |-> conn_id,
                     conn |-> conn,
                     globalLimiter |-> globalLimiter,
                     connLimiter |-> Len(limiters) + 1,
                     mtu |-> mtu]
       IN /\ rawConn' = IF ok THEN Append(rawConn, "open") ELSE rawConn
          /\ n_conns' = n_conns + 1
          /\ limiters' = Append(limiters, NewLimiter(connLimit, mtu))
          /\ lconns' = Append(lconns, lconn)
          /\ conns' = Append(conns, Len(lconns) + 1)
          /\ handles' = Append(handles, lconn)
          /\ wr' = Append(wr, IdleWriter)
          /\ closeCalls' = Append(closeCalls, 0)
    /\ UNCHANGED <<listener, globalLimiter, connLimit, mtu, orphans, now,
                   crashed, fails, lastSet,
                      inflight>>

\* ------------------------------------------- LimitedListener.CloseConnection
\* The index of the first registry entry whose id is `id`, 0 if there is none.
FindId(cs, lcs, id) ==
    LET hits == {i \in 1..Len(cs) : lcs[cs[i]].id = id}
    IN IF hits = {} THEN 0 ELSE CHOOSE i \in hits : \A j \in hits : i <= j

\* A variant of RemoveAt that forgets to shorten the slice.
RemoveAtKeep(cs, i) == IF i = 0 THEN cs ELSE [cs EXCEPT ![i] = cs[Len(cs)]]

\* ll.conns[i] = ll.conns[len-1]; ll.conns = ll.conns[:len-1]
RemoveAt(cs, i) ==
    IF i = 0 THEN cs
    ELSE SubSeq([cs EXCEPT ![i] = cs[Len(cs)]], 1, Len(cs) - 1)

\* h: the connection value (as returned by Accept) that is passed in.
\* Closing the nil conn of a failed accept panics before anything else.
CloseConnection(h) ==
    LET lconn == handles[h]
    IN /\ ~crashed
       /\ IF lconn.conn = 0
          THEN /\ crashed' = TRUE
               /\ UNCHANGED <<listenerVars, limiters, wr, orphans, now, fails,
                              closeCalls, lastSet,
                      inflight>>
          ELSE /\ rawConn' = [rawConn EXCEPT ![lconn.conn] = "closed"]
               /\ conns' = RemoveAt(conns, FindId(conns, lconns, lconn.id))
               /\ n_conns' = n_conns - 1
               /\ closeCalls' = [closeCalls EXCEPT ![h] = @ + 1]
               /\ UNCHANGED <<listener, globalLimiter, connLimit, mtu, lconns,
                              handles, limiters, wr, orphans, now, crashed,
                              fails, lastSet,
                      inflight>>

\* ----------------------------------------------------- LimitedListener.Close
ListenerClose ==
    /\ ~crashed
    /\ listener' = "closed"
    /\ UNCHANGED <<n_conns, globalLimiter, connLimit, mtu, conns, lconns,
                   handles, limiters, rawConn, wr, orphans, now, crashed,
                   fails, closeCalls, lastSet,
                      inflight>>

\* --------------------------------------------------------- LimitedConn.Close
ConnClose(h) ==
    /\ ~crashed
    /\ IF handles[h].conn = 0
       THEN /\ crashed' = TRUE
            /\ UNCHANGED <<listenerVars, limiters, wr, orphans, now, fails,
                           closeCalls, lastSet,
                      inflight>>
       ELSE /\ rawConn' = [rawConn EXCEPT ![handles[h].conn] = "closed"]
            /\ UNCHANGED <<n_conns, listener, globalLimiter, connLimit, mtu,
                           conns, lconns, handles, limiters, wr, orphans, now,
                           crashed, fails, closeCalls, lastSet,
                      inflight>>

\* ------------------------------------------------ the listener's operations
Next ==
    \/ \E g \in Rates, c \in Rates : SetLimits(g, c)
    \/ \E ok \in BOOLEAN : nAccept < MaxAccepts /\ Accept(ok)
    \/ \E h \in 1..Len(handles) :
           nClose < MaxCloseCalls /\ CloseConnection(h)
    \/ ListenerClose
    \/ \E h \in 1..Len(handles) : ConnClose(h)

Spec == Init /\ [][Next]_vars

\* ---------------------------------------------------------- LimitedConn.Write
\* A variant of TakeChunk that is off by one the other way: s = b[:lc.mtu+1].
TakeChunkOver(b, m) == IF Len(b) > m THEN SubSeq(b, 1, m + 1) ELSE b

\* A variant of TakeChunk that is off by one: s = b[:lc.mtu-1].
TakeChunkShort(b, m) == IF Len(b) > m THEN SubSeq(b, 1, m - 1) ELSE b

\* s = b; if len(b) > lc.mtu { s = b[:lc.mtu] }
TakeChunk(b, m) == IF Len(b) > m THEN SubSeq(b, 1, m) ELSE b

\* A variant of DropChunk that is off by one.
DropChunkSkip(b, s) == SubSeq(b, Len(s) + 2, Len(b))

\* b = b[len(s):]
DropChunk(b, s) == SubSeq(b, Len(s) + 1, Len(b))

\* A variant of WaitUnits that asks for one unit per chunk.
WaitUnitsOne(s) == 1

\* err = lc.waitN(ctx, len(s))
WaitUnits(s) == Len(s)

\* A variant of WgDone: wg.Add(1), so one wg.Done releases wg.Wait.
WgDoneEither(w) == w.cs # "run" \/ w.gs # "run"

\* The two goroutines of waitN have both called wg.Done.
WgDone(w) == w.cs # "run" /\ w.gs # "run"

\* One turn of `for len(b) > 0`, up to the point where waitN has started its
\* goroutines; or, when nothing is left, `return n, err`.
LoopStep(st, m) ==
    IF Len(st.b) > 0
    THEN LET s == TakeChunk(st.b, m)
         IN [st EXCEPT !.s = s,
                       !.b = DropChunk(st.b, s),
                       !.w = [n |-> WaitUnits(s), cs |-> "run", gs |-> "run",
                              cg |-> 0, gg |-> 0, ch |-> <<>>,
                              closed |-> FALSE, ret |-> "none"],
                       !.pc = "waitN"]
    ELSE [st EXCEPT !.pc = "idle", !.ret = [n |-> st.n, err |-> "nil"]]

\* Write(data) is called on the connection value h.
WriteCall(h, data) ==
    /\ ~crashed
    /\ wr[h].pc = "idle"
    /\ wr' = [wr EXCEPT ![h] =
                 LoopStep([wr[h] EXCEPT !.data = data, !.b = data, !.s = <<>>,
                                        !.n = 0, !.ret = NoRet, !.w = NoWait,
                                        !.rawLog = <<>>, !.failed = FALSE,
                                        !.cancel = FALSE, !.calls = @ + 1],
                          handles[h].mtu)]
    /\ UNCHANGED <<listenerVars, limiters, orphans, now, crashed, fails,
                   closeCalls, lastSet,
                      inflight>>

\* --------------------------------------------------------- LimitedConn.waitN
\* go func() { err := lc.connLimiter.WaitN(ctx, n); done <- err }()
\* ok: whether the limiter's WaitN returns nil (it then has taken n tokens).
ConnWait(h, ok) ==
    LET w == wr[h].w
        l == handles[h].connLimiter
    IN /\ ~crashed
       /\ wr[h].pc = "waitN"
       /\ w.cs = "run"
       /\ IF ok
          THEN /\ LimiterCanTake(limiters[l], w.n)
               /\ limiters' = [limiters EXCEPT ![l] = LimiterTake(@, w.n)]
               /\ wr' = [wr EXCEPT ![h].w.cs = "ok", ![h].w.cg = w.n,
                                   ![h].w.ch = Append(w.ch, "nil")]
               /\ fails' = fails
          ELSE /\ limiters' = limiters
               /\ wr' = [wr EXCEPT ![h].w.cs = "err", ![h].failed = TRUE,
                                   ![h].w.ch = Append(w.ch, "err")]
               /\ fails' = fails + 1
       /\ UNCHANGED <<listenerVars, orphans, now, crashed, closeCalls, lastSet,
                      inflight>>

\* A variant of GlobalWaitLimiter: the second goroutine was pasted from the
\* first and still waits on lc.connLimiter.
GlobalWaitLimiterConn(h) == handles[h].connLimiter

\* the limiter the second goroutine waits on: lc.globalLimiter
GlobalWaitLimiter(h) == handles[h].globalLimiter

\* go func() { err := lc.globalLimiter.WaitN(ctx, n); done <- err }()
\* WaitN on a nil *Limiter panics.
GlobalWait(h, ok) ==
    LET w == wr[h].w
        l == GlobalWaitLimiter(h)
    IN /\ ~crashed
       /\ wr[h].pc = "waitN"
       /\ w.gs = "run"
       /\ IF l = 0
          THEN /\ crashed' = TRUE
               /\ UNCHANGED <<limiters, wr, fails>>
          ELSE /\ crashed' = crashed
               /\ IF ok
                  THEN /\ LimiterCanTake(limiters[l], w.n)
                       /\ limiters' = [limiters EXCEPT ![l] = LimiterTake(@, w.n)]
                       /\ wr' = [wr EXCEPT ![h].w.gs = "ok", ![h].w.gg = w.n,
                                           ![h].w.ch = Append(w.ch, "nil")]
                       /\ fails' = fails
                  ELSE /\ limiters' = limiters
                       /\ wr' = [wr EXCEPT ![h].w.gs = "err",
                                           ![h].failed = TRUE,
                                           ![h].w.ch = Append(w.ch, "err")]
                       /\ fails' = fails + 1
       /\ UNCHANGED <<listenerVars, orphans, now, closeCalls, lastSet,
                      inflight>>

\* A variant of Closer that forgets wg.Wait().
CloserNoWait(h) ==
    /\ ~crashed
    /\ wr[h].pc = "waitN"
    /\ ~wr[h].w.closed
    /\ wr' = [wr EXCEPT ![h].w.closed = TRUE]
    /\ UNCHANGED <<listenerVars, limiters, orphans, now, crashed, fails,
                   closeCalls, lastSet, inflight>>

\* go func() { wg.Wait(); close(done) }()
Closer(h) ==
    /\ ~crashed
    /\ wr[h].pc = "waitN"
    /\ WgDone(wr[h].w)
    /\ ~wr[h].w.closed
    /\ wr' = [wr EXCEPT ![h].w.closed = TRUE]
    /\ UNCHANGED <<listenerVars, limiters, orphans, now, crashed, fails,
                   closeCalls, lastSet,
                      inflight>>

\* The sub-waits of w that are still running: they outlive an early return.
Running(h, w) ==
    (IF w.cs = "run" THEN <<[lim |-> handles[h].connLimiter, n |-> w.n]>>
     ELSE <<>>)
    \o (IF w.gs = "run" THEN <<[lim |-> GlobalWaitLimiter(h), n |-> w.n]>>
        ELSE <<>>)

\* A variant of WaitNRecv: once waitN returns nil, Write goes straight to the
\* next turn of its loop, leaving the chunk to be passed on later.
WaitNRecvSkipWrite(h) ==
    LET w == wr[h].w
    IN /\ ~crashed
       /\ wr[h].pc = "waitN"
       /\ IF w.ch # <<>>
          THEN IF Head(w.ch) = "err"
               THEN /\ wr' = [wr EXCEPT ![h].w.ch = Tail(w.ch),
                                        ![h].w.ret = "err",
                                        ![h].ret = [n |-> 0, err |-> "wait"],
                                        ![h].pc = "idle"]
                    /\ orphans' = orphans
               ELSE /\ wr' = [wr EXCEPT ![h].w.ch = Tail(w.ch)]
                    /\ orphans' = orphans
          ELSE /\ w.closed
               /\ wr' = [wr EXCEPT ![h] = LoopStep(wr[h], handles[h].mtu)]
               /\ orphans' = orphans
       /\ UNCHANGED <<listenerVars, limiters, now, crashed, fails, closeCalls,
                      lastSet, inflight>>

\* A variant of WaitNRecv that forgets `if err != nil { return err }`.
WaitNRecvSwallow(h) ==
    LET w == wr[h].w
    IN /\ ~crashed
       /\ wr[h].pc = "waitN"
       /\ IF w.ch # <<>>
          THEN wr' = [wr EXCEPT ![h].w.ch = Tail(w.ch)]
          ELSE /\ w.closed
               /\ wr' = [wr EXCEPT ![h].w.ret = "nil", ![h].pc = "rawWrite"]
       /\ UNCHANGED <<listenerVars, limiters, orphans, now, crashed, fails,
                      closeCalls, lastSet, inflight>>

\* One turn of `for err := range done`: a value is received, or the channel
\* is found closed and empty.  An error makes waitN, and then Write, return;
\* unless `done` is closed already, goroutines of the call are left behind.
WaitNRecv(h) ==
    LET w == wr[h].w
    IN /\ ~crashed
       /\ wr[h].pc = "waitN"
       /\ IF w.ch # <<>>
          THEN IF Head(w.ch) = "err"
               THEN /\ wr' = [wr EXCEPT ![h].w.ch = Tail(w.ch),
                                        ![h].w.ret = "err",
                                        ![h].ret = [n |-> 0, err |-> "wait"],
                                        ![h].pc = "idle"]
                    /\ orphans' = IF w.closed THEN orphans
                                   ELSE Append(orphans,
                                               [h |-> h,
                                                w |-> [w EXCEPT !.ch = Tail(w.ch),
                                                                !.ret = "err"]])
               ELSE /\ wr' = [wr EXCEPT ![h].w.ch = Tail(w.ch)]
                    /\ orphans' = orphans
          ELSE /\ w.closed
               /\ wr' = [wr EXCEPT ![h].w.ret = "nil", ![h].pc = "rawWrite"]
               /\ orphans' = orphans
       /\ UNCHANGED <<listenerVars, limiters, now, crashed, fails, closeCalls,
                      lastSet,
                      inflight>>

\* A sub-wait left behind by an early return finishes: its limiter's WaitN
\* returns (taking the tokens when it returns nil) and it sends the result on
\* `done`, which nobody receives from any more.
OrphanWait(i, ok) ==
    LET o == orphans[i]
        r == Running(o.h, o.w)
    IN /\ ~crashed
       /\ r # <<>>
       /\ LET sub == Head(r)
              res == IF ok THEN "ok" ELSE "err"
              sent == Append(o.w.ch, IF ok THEN "nil" ELSE "err")
              w1 == IF o.w.cs = "run"
                    THEN [o.w EXCEPT !.cs = res, !.ch = sent,
                                     !.cg = IF ok THEN sub.n ELSE 0]
                    ELSE [o.w EXCEPT !.gs = res, !.ch = sent,
                                     !.gg = IF ok THEN sub.n ELSE 0]
          IN IF sub.lim = 0
             THEN /\ crashed' = TRUE
                  /\ UNCHANGED <<limiters, orphans>>
             ELSE /\ crashed' = crashed
                  /\ ok => LimiterCanTake(limiters[sub.lim], sub.n)
                  /\ limiters' = IF ok
                                 THEN [limiters EXCEPT ![sub.lim] =
                                                          LimiterTake(@, sub.n)]
                                 ELSE limiters
                  /\ orphans' = [orphans EXCEPT ![i].w = w1]
       /\ UNCHANGED <<listenerVars, wr, now, fails, closeCalls, lastSet,
                      inflight>>

\* go func() { wg.Wait(); close(done) }() of a waitN call that returned
\* early.  Once `done` is closed and no goroutine of the call is left, the
\* call is forgotten.
OrphanCloser(i) ==
    LET o == orphans[i]
    IN /\ ~crashed
       /\ WgDone(o.w)
       /\ ~o.w.closed
       /\ orphans' = IF Running(o.h, o.w) = <<>>
                     THEN SubSeq(orphans, 1, i - 1)
                              \o SubSeq(orphans, i + 1, Len(orphans))
                     ELSE [orphans EXCEPT ![i].w.closed = TRUE]
       /\ UNCHANGED <<listenerVars, limiters, wr, now, crashed, fails,
                      closeCalls, lastSet, inflight>>

\* w, err := lc.conn.Write(s), then the rest of the loop body and the next
\* turn.  ok: whether the raw write succeeds; it cannot on a closed conn, and
\* it panics on the nil conn of a failed accept.
RawWrite(h, ok) ==
    LET st == wr[h]
        conn == handles[h].conn
        passed == [st EXCEPT !.rawLog = Append(st.rawLog, st.s),
                             !.sentAt[now + 1] = @ + Len(st.s)]
    IN /\ ~crashed
       /\ st.pc = "rawWrite"
       /\ IF conn = 0
          THEN /\ crashed' = TRUE
               /\ UNCHANGED <<wr, fails>>
          ELSE /\ crashed' = crashed
               /\ ok => rawConn[conn] = "open"
               /\ IF ok
                  THEN /\ wr' = [wr EXCEPT ![h] =
                                    LoopStep([passed EXCEPT !.n = st.n + Len(st.s)],
                                             handles[h].mtu)]
                       /\ fails' = fails
                  ELSE /\ wr' = [wr EXCEPT ![h] =
                                    [passed EXCEPT !.ret = [n |-> 0, err |-> "io"],
                                                   !.failed = TRUE,
                                                   !.pc = "idle"]]
                       /\ fails' = IF rawConn[conn] = "open" THEN fails + 1
                                   ELSE fails
       /\ UNCHANGED <<listenerVars, limiters, orphans, now, closeCalls, lastSet,
                      inflight>>

\* ------------------------------------------------------------------ the clock
\* history: the bytes of the chunk a Write call has taken and not yet passed
Outstanding(st) == IF st.pc \in {"waitN", "rawWrite"} THEN Len(st.s) ELSE 0

Tick ==
    /\ ~crashed
    /\ now' = now + 1
    /\ limiters' = [l \in 1..Len(limiters) |-> LimiterRefill(limiters[l])]
    /\ wr' = [h \in 1..Len(wr) |->
                 [wr[h] EXCEPT !.sentAt = Append(@, 0),
                               !.carry = Append(@, Outstanding(wr[h]))]]
    /\ UNCHANGED <<listenerVars, orphans, crashed, fails, closeCalls, lastSet,
                      inflight>>

\* ------------------------------------------- one connection that writes
NextWrite ==
    \/ \E g \in Rates, c \in Rates : SetLimits(g, c)
    \/ nAccept < MaxWriters /\ Accept(TRUE)
    \/ \E h \in 1..Len(handles), k \in 0..MaxData :
           wr[h].calls < MaxWrites /\ WriteCall(h, Payload(k))
    \/ \E h \in 1..Len(handles), ok \in BOOLEAN :
           ConnWait(h, ok) /\ fails' <= MaxFails
    \/ \E h \in 1..Len(handles), ok \in BOOLEAN :
           GlobalWait(h, ok) /\ fails' <= MaxFails
    \/ \E h \in 1..Len(handles) : Closer(h)
    \/ \E h \in 1..Len(handles) : WaitNRecv(h)
    \/ \E i \in 1..Len(orphans), ok \in BOOLEAN : OrphanWait(i, ok)
    \/ \E i \in 1..Len(orphans) : OrphanCloser(i)
    \/ \E h \in 1..Len(handles), ok \in BOOLEAN :
           RawWrite(h, ok) /\ fails' <= MaxFails
    \/ now < MaxTime /\ Tick

SpecWrite == Init /\ [][NextWrite]_vars

\* ------------------- several connections that write, none of whose waits
\* or raw writes fails
NextShare ==
    \/ \E g \in Rates, c \in Rates : SetLimits(g, c)
    \/ nAccept < MaxSharers /\ Accept(TRUE)
    \/ \E h \in 1..Len(handles), k \in 0..ShareData :
           wr[h].calls < 1 /\ WriteCall(h, Payload(k))
    \/ \E h \in 1..Len(handles) : ConnWait(h, TRUE)
    \/ \E h \in 1..Len(handles) : GlobalWait(h, TRUE)
    \/ \E h \in 1..Len(handles) : Closer(h)
    \/ \E h \in 1..Len(handles) : WaitNRecv(h)
    \/ \E h \in 1..Len(handles) : RawWrite(h, TRUE)
    \/ now < ShareTime /\ Tick

SpecShare == Init /\ [][NextShare]_vars

\* ------------------------------------- one Write call and its joint waits
\* A sub-wait of the waitN call of h is running and its limiter lacks the
\* tokens: the Write call is blocked.
Blocked(h) ==
    /\ wr[h].pc = "waitN"
    /\ \E k \in 1..Len(Running(h, wr[h].w)) :
           LET sub == Running(h, wr[h].w)[k]
           IN sub.lim # 0 /\ ~LimiterCanTake(limiters[sub.lim], sub.n)

\* The caller of the Write call on h gives up while the call is blocked: it
\* cancels, or its deadline passes.  Write made its own context,
\* ctx := context.Background(), which no caller can reach: the call and its
\* sub-waits go on as they were.
Cancel(h) ==
    /\ ~crashed
    /\ Blocked(h)
    /\ ~wr[h].cancel
    /\ wr' = [wr EXCEPT ![h].cancel = TRUE]
    /\ UNCHANGED <<listenerVars, limiters, orphans, now, crashed, fails,
                   closeCalls, lastSet, inflight>>

NextWait ==
    \/ \E g \in Rates, c \in Rates : SetLimits(g, c)
    \/ nAccept < 1 /\ Accept(TRUE)
    \/ \E h \in 1..Len(handles), k \in 0..WaitData :
           wr[h].calls < 1 /\ WriteCall(h, Payload(k))
    \/ \E h \in 1..Len(handles), ok \in BOOLEAN : ConnWait(h, ok)
    \/ \E h \in 1..Len(handles), ok \in BOOLEAN : GlobalWait(h, ok)
    \/ \E h \in 1..Len(handles) : Closer(h)
    \/ \E h \in 1..Len(handles) : WaitNRecv(h)
    \/ \E i \in 1..Len(orphans), ok \in BOOLEAN : OrphanWait(i, ok)
    \/ \E i \in 1..Len(orphans) : OrphanCloser(i)
    \/ \E h \in 1..Len(handles) : RawWrite(h, TRUE)
    \/ \E h \in 1..Len(handles) : Cancel(h)
    \/ now < WaitTime /\ Tick

\* The goroutines of waitN and the goroutine in Write are scheduled fairly,
\* and every limiter's WaitN returns in the end, with nil or with an error.
FairWait ==
    /\ WF_vars(\E h \in 1..Len(handles), ok \in BOOLEAN : ConnWait(h, ok))
    /\ WF_vars(\E h \in 1..Len(handles), ok \in BOOLEAN : GlobalWait(h, ok))
    /\ WF_vars(\E h \in 1..Len(handles) : Closer(h))
    /\ WF_vars(\E h \in 1..Len(handles) : WaitNRecv(h))
    /\ WF_vars(\E i \in 1..Len(orphans), ok \in BOOLEAN : OrphanWait(i, ok))
    /\ WF_vars(\E i \in 1..Len(orphans) : OrphanCloser(i))

SpecWait == Init /\ [][NextWait]_vars /\ FairWait

\* ------------- the listener's methods called from concurrent goroutines
\* Nothing orders the loads and stores of ll.n_conns and ll.conns of one call
\* with those of another: a call is split where it has loaded a field and
\* not yet stored it.

\* Accept, up to `conn_id := ll.n_conns`: the raw accept succeeded and the
\* counter is loaded.  One goroutine, the accept loop, calls Accept.
AcceptBegin ==
    /\ ~crashed
    /\ listener = "open"
    /\ \A c \in inflight : c.op # "accept"
    /\ inflight' = inflight \cup {[op |-> "accept", h |-> 0, n |-> n_conns,
                                    cs |-> <<>>]}
    /\ UNCHANGED <<listenerVars, limiters, wr, orphans, now, crashed, fails,
                   closeCalls, lastSet>>

\* The rest of Accept: the store of `ll.n_conns++`, the struct, the append.
AcceptEnd ==
    \E c \in inflight :
        /\ ~crashed
        /\ c.op = "accept"
        /\ LET lconn == [id |-> c.n,
                         conn |-> Len(rawConn) + 1,
                         globalLimiter |-> globalLimiter,
                         connLimiter |-> Len(limiters) + 1,
                         mtu |-> mtu]
           IN /\ rawConn' = Append(rawConn, "open")
              /\ n_conns' = c.n + 1
              /\ limiters' = Append(limiters, NewLimiter(connLimit, mtu))
              /\ lconns' = Append(lconns, lconn)
              /\ conns' = Append(conns, Len(lconns) + 1)
              /\ handles' = Append(handles, lconn)
              /\ wr' = Append(wr, IdleWriter)
              /\ closeCalls' = Append(closeCalls, 0)
        /\ inflight' = inflight \ {c}
        /\ UNCHANGED <<listener, globalLimiter, connLimit, mtu, orphans, now,
                       crashed, fails, lastSet>>

\* CloseConnection(h), up to the load of ll.conns in
\* `ll.conns = ll.conns[:len(ll.conns)-1]`: the raw connection is closed, the
\* entry is found and overwritten by the last one.  Each connection's
\* goroutine calls it once.
CloseBegin(h) ==
    LET i == FindId(conns, lconns, handles[h].id)
    IN /\ ~crashed
       /\ closeCalls[h] = 0
       /\ \A c \in inflight : c.h # h
       /\ rawConn' = [rawConn EXCEPT ![handles[h].conn] = "closed"]
       /\ conns' = IF i = 0 THEN conns ELSE [conns EXCEPT ![i] = conns[Len(conns)]]
       /\ inflight' = inflight \cup
                          {[op |-> IF i = 0 THEN "closeMiss" ELSE "close",
                            h |-> h, n |-> 0, cs |-> conns']}
       /\ UNCHANGED <<n_conns, listener, globalLimiter, connLimit, mtu, lconns,
                      handles, limiters, wr, orphans, now, crashed, fails,
                      closeCalls, lastSet>>

\* The rest of CloseConnection: the store of the shortened slice (when the
\* entry was found) and `ll.n_conns--`.
CloseEnd(h) ==
    \E c \in inflight :
        /\ ~crashed
        /\ c.h = h
        /\ conns' = IF c.op = "close" THEN SubSeq(c.cs, 1, Len(c.cs) - 1)
                    ELSE conns
        /\ n_conns' = n_conns - 1
        /\ closeCalls' = [closeCalls EXCEPT ![h] = @ + 1]
        /\ inflight' = inflight \ {c}
        /\ UNCHANGED <<listener, globalLimiter, connLimit, mtu, lconns,
                       handles, limiters, rawConn, wr, orphans, now, crashed,
                       fails, lastSet>>

NextRace ==
    \/ \E g \in Rates, c \in Rates : SetLimits(g, c)
    \/ nAccept < RaceAccepts /\ AcceptBegin
    \/ AcceptEnd
    \/ \E h \in 1..Len(handles) : CloseBegin(h)
    \/ \E h \in 1..Len(handles) : CloseEnd(h)

SpecRace == Init /\ [][NextRace]_vars

\* ======================================================================
\* The claims
\* ======================================================================
Handles == 1..Len(handles)

ConnRate(h) == limiters[handles[h].connLimiter].limit

GlobalRate == limiters[globalLimiter].limit

\* The intervals [i, j] of instants during which the limits did not change.
Windows == {p \in (lastSet.from..now) \X (lastSet.from..now) : p[1] <= p[2]}

\* history: the bytes of the chunks that Write calls of hs had taken but not
\* yet passed when instant i began
RECURSIVE CarryAt(_, _)
CarryAt(hs, i) ==
    IF hs = {} THEN 0
    ELSE LET h == CHOOSE x \in hs : TRUE
         IN wr[h].carry[i + 1] + CarryAt(hs \ {h}, i)

\* C1: a chunk is at the raw connection's Write only when waitN returned nil
\* and the connection's own limiter and the listener's global limiter have
\* each granted exactly len(chunk) units to that waitN call; and whenever
\* waitN has returned, it returned nil iff both sub-waits returned nil.
C1_BothLimitersGrant ==
    \A h \in Handles :
        LET st == wr[h]
            w == st.w
        IN /\ st.pc = "rawWrite" =>
                  /\ w.ret = "nil"
                  /\ w.cg = Len(st.s)
                  /\ w.gg = Len(st.s)
                  /\ handles[h].globalLimiter # 0
                  /\ handles[h].globalLimiter = globalLimiter
                  /\ handles[h].connLimiter # globalLimiter
           /\ w.ret # "none" => (w.ret = "nil" <=> (w.cs = "ok" /\ w.gs = "ok"))

\* A short last chunk, after a full one, is about to be passed on.
C1_Witness ==
    \E h \in Handles :
        /\ wr[h].pc = "rawWrite"
        /\ Len(wr[h].s) < handles[h].mtu
        /\ Len(wr[h].rawLog) >= 1

\* C2 as stated: while the global rate G is unchanged, the bytes all
\* connections pass to their raw connections during any interval of t time
\* units are at most G*t + chunk size.
C2_GlobalBound ==
    lastSet.set =>
        \A p \in Windows :
            SentIn(Handles, p[1], p[2]) <= GlobalRate * (p[2] - p[1]) + mtu

\* C2 as amended: ... are at most G*t + chunk size + the bytes of the chunks
\* that Write calls had already taken but not yet passed when the interval
\* began (one chunk per Write call in progress).
C2_GlobalBoundCarry ==
    lastSet.set =>
        \A p \in Windows :
            SentIn(Handles, p[1], p[2])
                <= GlobalRate * (p[2] - p[1]) + mtu + CarryAt(Handles, p[1])

\* Two connections sharing the global limiter pass a full chunk each in
\* one instant.
C2_Witness ==
    /\ lastSet.set
    /\ Len(handles) >= 2
    /\ \A h \in Handles : handles[h].globalLimiter = globalLimiter
    /\ \E i \in lastSet.from..now :
           /\ i > 0
           /\ \A h \in Handles : SentIn({h}, i, i) = mtu

\* C3 as stated: while the limits C <= G are unchanged, the bytes one
\* connection passes to its raw connection during any interval of t time
\* units are at most C*t + chunk size.
C3_ConnBound ==
    lastSet.set =>
        \A h \in Handles :
            ConnRate(h) <= GlobalRate =>
                \A p \in Windows :
                    SentIn({h}, p[1], p[2])
                        <= ConnRate(h) * (p[2] - p[1]) + mtu

\* C3 as amended: ... are at most C*t + chunk size + the bytes of the chunk
\* that a Write call of the connection had already taken but not yet passed
\* when the interval began.
C3_ConnBoundCarry ==
    lastSet.set =>
        \A h \in Handles :
            ConnRate(h) <= GlobalRate =>
                \A p \in Windows :
                    SentIn({h}, p[1], p[2])
                        <= ConnRate(h) * (p[2] - p[1]) + mtu + wr[h].carry[p[1] + 1]

\* A connection in its second Write call has passed more than one chunk
\* within a single instant after the first.
C3_Witness ==
    /\ lastSet.set
    /\ \E h \in Handles :
           /\ wr[h].calls = 2
           /\ ConnRate(h) <= GlobalRate
           /\ \E i \in lastSet.from..now : i > 0 /\ SentIn({h}, i, i) > mtu

\* C4: a Write call that returned without any of its limiter waits or raw
\* writes failing returned (len(data), nil) and passed chunks of 1..mtu bytes,
\* all but the last of exactly mtu bytes, whose concatenation is data (none
\* for empty data).
C4_WriteChunks ==
    \A h \in Handles :
        LET st == wr[h]
        IN (st.pc = "idle" /\ st.calls > 0 /\ ~st.failed) =>
               /\ st.ret = [n |-> Len(st.data), err |-> "nil"]
               /\ Flatten(st.rawLog) = st.data
               /\ \A i \in 1..Len(st.rawLog) :
                      /\ Len(st.rawLog[i]) \in 1..mtu
                      /\ i < Len(st.rawLog) => Len(st.rawLog[i]) = mtu
               /\ st.data = <<>> => st.rawLog = <<>>

\* A Write of the longest payload has returned after a short last chunk.
C4_Witness ==
    \E h \in Handles :
        /\ wr[h].pc = "idle"
        /\ ~wr[h].failed
        /\ Len(wr[h].data) = MaxData
        /\ Len(wr[h].rawLog) >= 2
        /\ Len(wr[h].rawLog[Len(wr[h].rawLog)]) < mtu

\* C5: once SetLimits(G, C) has been called, the global limiter's rate is the
\* latest G and the limiter of every registered connection, reached through
\* the connection value Accept returned, has the latest C as its rate: right
\* after the call and after every later Accept.
C5_SetLimitsReaches ==
    lastSet.set =>
        /\ globalLimiter # 0
        /\ GlobalRate = lastSet.g
        /\ connLimit = lastSet.c
        /\ \A i \in 1..Len(conns) : ConnRate(conns[i]) = lastSet.c

\* The registry holds a connection accepted before the first SetLimits and
\* one accepted after it, and the rate was since changed.
C5_Witness ==
    /\ lastSet.set
    /\ \E i, j \in 1..Len(conns) :
           /\ handles[conns[i]].globalLimiter = 0
           /\ handles[conns[j]].globalLimiter # 0
    /\ lastSet.c = MaxRate

\* C6: every connection returned by Accept and not yet closed holds the
\* listener's current global limiter, which is not nil.
C6_GlobalLimiterShared ==
    \A h \in Handles :
        (handles[h].conn # 0 /\ rawConn[handles[h].conn] = "open") =>
            /\ handles[h].globalLimiter # 0
            /\ handles[h].globalLimiter = globalLimiter

\* C7: no two entries of the live registry have the same id.
C7_DistinctIds ==
    \A i, j \in 1..Len(conns) :
        i # j => lconns[conns[i]].id # lconns[conns[j]].id

\* The runs C8 is about: every raw accept succeeded and CloseConnection was
\* applied at most once to each returned connection.
C8_Pre ==
    /\ \A h \in Handles : handles[h].conn # 0
    /\ \A h \in Handles : closeCalls[h] <= 1

\* C8: in such runs the registry's size is the number of Accept calls minus
\* the number of CloseConnection calls; a step that grows the registry is an
\* Accept and a step that shrinks it is a CloseConnection.
C8_RegistrySize ==
    /\ [](C8_Pre => Len(conns) = nAccept - nClose)
    /\ [][C8_Pre' =>
            /\ Len(conns') > Len(conns) => \E ok \in BOOLEAN : Accept(ok)
            /\ Len(conns') < Len(conns) =>
                   \E h \in Handles : CloseConnection(h)]_vars

\* Three connections were accepted and two of them closed.
C8_Witness ==
    /\ C8_Pre
    /\ nAccept = 3
    /\ nClose = 2
    /\ Len(conns) = 1

\* C9: CloseConnection(conn), for a registered connection returned by a
\* successful Accept, closes conn's raw connection and removes from the
\* registry the entry made for conn and no other.
C9_CloseRemovesOwnEntry ==
    [][\A h \in Handles :
           (CloseConnection(h) /\ handles[h].conn # 0 /\ h \in Range(conns)) =>
               /\ rawConn'[handles[h].conn] = "closed"
               /\ Range(conns') = Range(conns) \ {h}]_vars

\* C10: a failed raw accept leaves the connection counter and the registry
\* as they were.
C10_FailedAcceptNoEffect ==
    [][Accept(FALSE) => UNCHANGED <<n_conns, conns>>]_vars

\* C11: once a limiter wait or the raw write of a Write call has failed, the
\* call never reaches the raw connection again; it returns (0, the error);
\* the chunks it passed to the raw connection are then exactly the chunks of
\* data before the failing one (and the failing one itself when the raw write
\* failed), each once and in order, however many they are; and until the next
\* Write call nothing more is passed and no wait is started.
C11_StopsAtFailure ==
    /\ [](\A h \in Handles :
             LET st == wr[h]
             IN st.failed =>
                    /\ st.pc # "rawWrite"
                    /\ st.pc = "idle" =>
                           /\ st.ret.n = 0
                           /\ st.ret.err \in {"wait", "io"}
                           /\ st.ret.err = "wait" =>
                                  Flatten(st.rawLog) \o st.s \o st.b = st.data
                           /\ st.ret.err = "io" =>
                                  /\ Flatten(st.rawLog) \o st.b = st.data
                                  /\ st.rawLog[Len(st.rawLog)] = st.s)
    /\ [][\A h \in Handles :
              (wr[h].failed /\ wr[h].pc = "idle"
                            /\ wr'[h].calls = wr[h].calls) =>
                  /\ wr'[h].pc = "idle"
                  /\ wr'[h].rawLog = wr[h].rawLog
                  /\ wr'[h].ret = wr[h].ret]_vars

\* A Write call returned (0, the wait's error) after it had passed a chunk.
C11_Witness ==
    \E h \in Handles :
        /\ wr[h].pc = "idle"
        /\ wr[h].failed
        /\ wr[h].ret = [n |-> 0, err |-> "wait"]
        /\ Len(wr[h].rawLog) >= 1

\* C12: when a Write call of more than one chunk has returned a limiter
\* wait's error, every chunk it passed to the raw connection was a whole
\* chunk of mtu bytes, so the bytes passed are a multiple of the chunk size,
\* and they are fewer than len(data).
C12_WholeChunksBeforeAbort ==
    \A h \in Handles :
        LET st == wr[h]
            passed == Len(Flatten(st.rawLog))
        IN (st.pc = "idle" /\ st.ret.err = "wait"
                           /\ Len(st.data) > handles[h].mtu) =>
               /\ \A i \in 1..Len(st.rawLog) :
                      Len(st.rawLog[i]) = handles[h].mtu
               /\ passed % handles[h].mtu = 0
               /\ passed < Len(st.data)

\* A Write call of more than one chunk was aborted by a wait after exactly
\* one chunk went out.
C12_Witness ==
    \E h \in Handles :
        /\ wr[h].pc = "idle"
        /\ wr[h].ret.err = "wait"
        /\ Len(wr[h].data) > handles[h].mtu
        /\ Len(Flatten(wr[h].rawLog)) = handles[h].mtu

\* C13: a Write call whose caller gave up (cancelled, or its deadline
\* passed) while the call was blocked waiting for tokens passes nothing more
\* to the raw connection and returns an error: its sub-waits are aborted
\* instead of being granted once tokens arrive.
C13_CancelAborts ==
    \A h \in Handles :
        wr[h].cancel =>
            /\ wr[h].pc # "rawWrite"
            /\ wr[h].pc = "idle" => wr[h].ret.err # "nil"

\* C14: with Accept, SetLimits and CloseConnection called from concurrent
\* goroutines (every raw accept succeeding, each connection closed at most
\* once), whenever no call is in progress the connection counter and the
\* size of the registry both equal the number of Accept calls minus the
\* number of CloseConnection calls: no entry and no counter update is lost.
C14_NoLostUpdate ==
    inflight = {} =>
        /\ n_conns = nAccept - nClose
        /\ Len(conns) = nAccept - nClose

\* C15: a SetLimits(G, C) call that repeats the latest SetLimits call leaves
\* the global limiter object, the rate and burst of every limiter, the
\* recorded per-connection limit, the registry, its connections and the
\* counter as they were; it makes no limiter.
C15_SetLimitsIdempotent ==
    [][\A g \in Rates, c \in Rates :
          (SetLimits(g, c) /\ lastSet.set /\ lastSet.g = g /\ lastSet.c = c) =>
              /\ UNCHANGED <<globalLimiter, connLimit, n_conns, conns, lconns>>
              /\ Len(limiters') = Len(limiters)
              /\ \A l \in 1..Len(limiters) :
                     /\ limiters'[l].limit = limiters[l].limit
                     /\ limiters'[l].burst = limiters[l].burst]_vars

\* SetLimits was repeated with two connections registered, one of them
\* accepted before the first SetLimits.
C15_Witness ==
    /\ lastSet.again
    /\ Len(conns) >= 2
    /\ \E i \in 1..Len(conns) : handles[conns[i]].globalLimiter = 0

\* C16: no step decreases the connection counter, and the id given by an
\* Accept is greater than every id given before it.
C16_CounterMonotone ==
    [][/\ n_conns' >= n_conns
       /\ Len(handles') > Len(handles) =>
              \A h \in Handles : handles'[Len(handles')].id > handles[h].id]_vars

\* C17: the global limiter is made by a SetLimits call, with burst mtu; once
\* the listener holds one, no step replaces it or changes its burst; and the
\* units a sub-wait of Write asks for never exceed the burst of the limiter
\* it asks.
C17_GlobalLimiterOnce ==
    /\ [](globalLimiter # 0 => limiters[globalLimiter].burst = mtu)
    /\ [](\A h \in Handles :
             wr[h].pc = "waitN" =>
                 /\ wr[h].w.n <= limiters[handles[h].connLimiter].burst
                 /\ GlobalWaitLimiter(h) # 0 =>
                        wr[h].w.n <= limiters[GlobalWaitLimiter(h)].burst)
    /\ [][/\ globalLimiter' # globalLimiter =>
                  \E g \in Rates, c \in Rates : SetLimits(g, c)
          /\ globalLimiter # 0 =>
                  /\ globalLimiter' = globalLimiter
                  /\ limiters'[globalLimiter].burst
                         = limiters[globalLimiter].burst]_vars

\* After a repeated SetLimits, a Write call waits for a full chunk on the
\* listener's global limiter.
C17_Witness ==
    /\ lastSet.again
    /\ \E h \in Handles :
           /\ wr[h].pc = "waitN"
           /\ wr[h].w.n = mtu
           /\ GlobalWaitLimiter(h) = globalLimiter
           /\ globalLimiter # 0

\* A step starts a joint wait of the Write call on h.
WaitStarted(h) ==
    /\ wr'[h].pc = "waitN"
    /\ wr'[h].w.cs = "run" /\ wr'[h].w.gs = "run"
    /\ ~(wr[h].pc = "waitN" /\ wr[h].w.cs = "run" /\ wr[h].w.gs = "run")

\* C18: while a Write call waits for a chunk, the chunks of data before it
\* have all been passed to the raw connection; and a step that starts a joint
\* wait either starts the call, or passes the chunk of the call's previous
\* wait, which had returned nil, to the raw connection.
C18_ChunksInSequence ==
    /\ [](\A h \in Handles :
             wr[h].pc = "waitN" =>
                 Flatten(wr[h].rawLog) \o wr[h].s \o wr[h].b = wr[h].data)
    /\ [][\A h \in Handles :
              WaitStarted(h) =>
                  \/ /\ wr[h].pc = "idle"
                     /\ wr'[h].calls = wr[h].calls + 1
                     /\ wr'[h].rawLog = <<>>
                  \/ /\ wr[h].pc = "rawWrite"
                     /\ wr[h].w.ret = "nil"
                     /\ wr'[h].calls = wr[h].calls
                     /\ wr'[h].rawLog = Append(wr[h].rawLog, wr[h].s)]_vars

\* A Write call waits for its second chunk.
C18_Witness ==
    \E h \in Handles :
        /\ wr[h].pc = "waitN"
        /\ Len(wr[h].rawLog) = 1
        /\ wr[h].w.cs = "run"
        /\ wr[h].w.gs = "run"

\* C19: a sub-wait left behind when waitN returned the other one's error is
\* cancelled: it never takes tokens.
C19_RemainingWaitCancelled ==
    [][\A i \in 1..Len(orphans) :
          ~(OrphanWait(i, TRUE) /\ limiters' # limiters)]_vars

\* The goroutines of one waitN call: `done` never holds more than its two
\* slots, and is closed only when neither sub-wait is left to send on it.
TasksSafe(w) ==
    /\ Len(w.ch) <= 2
    /\ w.closed => (w.cs # "run" /\ w.gs # "run")

\* C20: in every waitN call, also one that returned early, no send on `done`
\* blocks or finds it closed; a waitN call in progress returns; and the
\* goroutines a waitN call left behind all terminate (unless a goroutine
\* panicked: then no limiter wait returns).
C20_NoLeak ==
    /\ [](\A h \in Handles : TasksSafe(wr[h].w))
    /\ [](\A i \in 1..Len(orphans) : TasksSafe(orphans[i].w))
    /\ (\E h \in Handles : wr[h].pc = "waitN")
           ~> (crashed \/ \A h \in Handles : wr[h].pc # "waitN")
    /\ (orphans # <<>>) ~> (crashed \/ orphans = <<>>)

\* A waitN call returned early; the sub-wait it left behind has since
\* delivered its result, and only the closing goroutine is left.
C20_Witness ==
    \E i \in 1..Len(orphans) :
        /\ orphans[i].w.cs # "run"
        /\ orphans[i].w.gs # "run"
        /\ Len(orphans[i].w.ch) >= 1

=============================================================================
